---- MODULE Spec2Model ----
(***************************************************************************)
(* A model of the catalog sync engine (api/sync_engine.py), of its entry   *)
(* points (api/sync_engine.py main block, run_sync.py), of the             *)
(* collaborators it calls: the TMDB and Google Books catalogs, the Hugging *)
(* Face embedding backend and the Supabase store, and of the read path's   *)
(* content recommendations (api/main.py).                                  *)
(*                                                                         *)
(* The module holds four specifications over one set of variables:         *)
(*   SpecEmbed      one call of get_embedding, request by request;         *)
(*   SpecCrawl      one call of get_indian_movies or get_global_books,     *)
(*                  page request by page request;                          *)
(*   Spec           an entry point and run_sync, candidate by candidate;   *)
(*   SpecRecommend  one GET /recommendations/content/{item_id} or one GET  *)
(*                  /search/semantic, store call by store call.            *)
(***************************************************************************)
EXTENDS Integers, Sequences, FiniteSets, TLC

VARIABLES
    TMDB_API_KEY,   \* TRUE iff the environment variable is set and non-empty
    SUPABASE_URL,
    SUPABASE_KEY,
    HF_TOKEN,
    ge,             \* the running get_embedding call (pc, i, ret, slept)
    hf_log,         \* ghost: the responses the call has received, in order
    cr,             \* the running crawler call (fn, pc, part, page, all, ...)
    cat_last,       \* ghost: the last page request and its answer
    fetched,        \* ghost: the items of the pages fetched successfully
    entry,          \* the entry point: "sync_engine", "run_sync_py", "direct"
    ep,             \* the entry point's progress (pc, outcome)
    rs,             \* run_sync's locals (pc, movie_candidates, book_items, ...)
    movies_table,   \* the store's movies table, its rows in insertion order
    books_table,    \* the store's books table, its rows in insertion order
    last,           \* ghost: what run_sync did with the latest candidate
    run,            \* ghost: 1 in the first run of run_sync, 2 in the second
    tape,           \* ghost: what the backend and the store answered in run 1
    after_first,    \* ghost: the tables as the first run left them
    log,            \* the count lines run_sync has logged, in order
    api             \* the running request of the read path (api/main.py)

creds == <<TMDB_API_KEY, SUPABASE_URL, SUPABASE_KEY, HF_TOKEN>>
embedVars == <<ge, hf_log>>
crawlVars == <<cr, cat_last, fetched>>
syncVars ==
    <<entry, ep, rs, movies_table, books_table, last, run, tape, after_first,
      log>>
apiVars == <<api>>
vars == <<creds, embedVars, crawlVars, syncVars, apiVars>>

----------------------------------------------------------------------------
(* JSON values, as response.json() yields them.  A Python list is a "list" *)
(* with its items; a dict is an "obj" of some number of keys; None is      *)
(* "null".  An unparsable body is "invalid": response.json() raises on it. *)

JNull == [t |-> "null"]
JNum(n) == [t |-> "num", n |-> n]
JObj(size) == [t |-> "obj", size |-> size]
JList(items) == [t |-> "list", items |-> items]
JStr(s) == [t |-> "str", s |-> s]
JInvalid == [t |-> "invalid"]
\* A key that the dict does not hold: d.get(k) gives None, d[k] raises.
JMissing == [t |-> "missing"]

\* Python's None, the failure result of get_embedding.
None == JNull

IsList(v) == v.t = "list"

\* Python truthiness of a JSON value: `if not embedding`.
Truthy(v) ==
    CASE v.t = "null" -> FALSE
      [] v.t = "num" -> v.n # 0
      [] v.t = "obj" -> v.size > 0
      [] v.t = "list" -> Len(v.items) > 0
      [] v.t = "str" -> Len(v.s) > 0
      [] OTHER -> FALSE

\* len(embedding), for the values that have a length (-1: none has).
PyLen(v) ==
    CASE v.t = "list" -> Len(v.items)
      [] v.t = "obj" -> v.size
      [] OTHER -> -1

\* The dimension of all-MiniLM-L6-v2 embeddings.
D == 384

\* A flat list of n numbers.
Flat(n) == JList([k \in 1..n |-> JNum(1 + (k % 2))])
\* One more single-element list layer around v.
Wrap(v) == JList(<<v>>)

\* "FLATTENING LOGIC": while len(vector) > 0 and isinstance(vector[0], list):
\*     vector = vector[0]
RECURSIVE FlattenLoop(_)
FlattenLoop(vector) ==
    IF Len(vector.items) > 0 /\ IsList(vector.items[1])
    THEN FlattenLoop(vector.items[1])
    ELSE vector

\* What get_embedding returns for a 200 response whose body parsed as vector.
Flatten(vector) ==
    IF IsList(vector) THEN FlattenLoop(vector) ELSE vector

----------------------------------------------------------------------------
(* The embedding backend's answers to one requests.post.                   *)

Http(status, body) == [kind |-> "http", status |-> status, body |-> body]
NetworkError == [kind |-> "exc", status |-> 0, body |-> JNull]

\* for i in range(5)
Attempts == 5
\* wait_time = (i + 1) * 5
WarmupStep == 5
\* time.sleep(2) after a request error
ErrorDelay == 2

----------------------------------------------------------------------------
(* get_embedding, as a state machine over the record                        *)
(*   [pc, i, ret, slept]:                                                   *)
(* pc is "request" at the top of the loop body and "returned" after the     *)
(* return; i is the loop variable; ret the returned value; slept the        *)
(* arguments of the time.sleep calls so far.                                *)

\* The call up to the first request: the HF_TOKEN guard.
GE_Begin(token) ==
    IF ~token
    THEN [pc |-> "returned", i |-> 0, ret |-> None, slept |-> <<>>]
    ELSE [pc |-> "request", i |-> 0, ret |-> None, slept |-> <<>>]

\* The next iteration of `for i in range(5)`, or `return None` after the loop.
GE_NextAttempt(st, wait) ==
    IF st.i + 1 < Attempts
    THEN [st EXCEPT !.i = st.i + 1, !.slept = Append(st.slept, wait)]
    ELSE [st EXCEPT !.i = st.i + 1, !.slept = Append(st.slept, wait),
                    !.pc = "returned", !.ret = None]

\* Mutant: a request error ends the call instead of being retried.
GE_OnExceptionGiveUp(st) ==
    [st EXCEPT !.slept = Append(st.slept, ErrorDelay),
               !.pc = "returned", !.ret = None]

\* except Exception: log, time.sleep(2), next iteration.
GE_OnException(st) == GE_NextAttempt(st, ErrorDelay)

\* Mutant: a 503 is retried without using up an attempt.
GE_On503Unbounded(st) ==
    [st EXCEPT !.slept = Append(st.slept, (st.i + 1) * WarmupStep)]

\* Mutant: every 503 is followed by the same wait.
GE_On503Fixed(st) == GE_NextAttempt(st, WarmupStep)

\* status 503: wait_time = (i + 1) * 5; time.sleep(wait_time); continue
GE_On503(st) == GE_NextAttempt(st, (st.i + 1) * WarmupStep)

\* Mutant: an error status is retried like a request error.
GE_OnErrorRetry(st) == GE_NextAttempt(st, ErrorDelay)

\* any other status: log and break, then return None.
GE_OnError(st) == [st EXCEPT !.pc = "returned", !.ret = None]

\* status 200: parse the body and return it flattened; a body that does not
\* parse raises inside the try block.
GE_On200(st, body) ==
    IF body = JInvalid
    THEN GE_OnException(st)
    ELSE [st EXCEPT !.pc = "returned", !.ret = Flatten(body)]

\* One pass through the loop body, given the backend's answer.
GE_Step(st, resp) ==
    IF resp.kind = "exc" THEN GE_OnException(st)
    ELSE IF resp.status = 200 THEN GE_On200(st, resp.body)
    ELSE IF resp.status = 503 THEN GE_On503(st)
    ELSE GE_OnError(st)

\* The whole call against a backend that answers the k-th request with
\* script[k]: the returned record, with the number of requests in i's place.
RECURSIVE GE_Run(_, _, _)
GE_Run(st, script, sent) ==
    IF st.pc = "returned"
    THEN [ret |-> st.ret, sent |-> sent, slept |-> st.slept]
    ELSE GE_Run(GE_Step(st, script[sent + 1]), script, sent + 1)

get_embedding(token, script) == GE_Run(GE_Begin(token), script, 0)

----------------------------------------------------------------------------
(* SpecEmbed: one get_embedding call, one request at a time.               *)

\* The bodies the backend may send with status 200.
WrongLen == 3
EmbedBodies ==
    { Flat(D), Wrap(Flat(D)), Wrap(Wrap(Wrap(Flat(WrongLen)))),
      JList(<<Flat(D), Flat(D)>>), Flat(WrongLen), Flat(0),
      JList(<<JNum(1), Flat(WrongLen)>>),
      JNull, JObj(1), JObj(0), JNum(0), JInvalid }

ErrorStatuses == {400, 401, 429, 500}

EmbedResponses ==
    { Http(200, b) : b \in EmbedBodies }
    \cup { Http(s, JNull) : s \in {503} \cup ErrorStatuses }
    \cup { NetworkError }

\* No crawler call is running.
CrawlIdle ==
    /\ cr = [fn |-> "none", pc |-> "idle", part |-> 1, page |-> 0,
             all |-> <<>>, arg |-> 0, slept |-> 0]
    /\ cat_last = [part |-> 0, page |-> 0, outcome |-> "none", requests |-> 0]
    /\ fetched = <<>>

\* The value of `last` before any candidate was processed.
NoLast ==
    [domain |-> "none", index |-> 0, stage |-> "none", texts |-> <<>>,
     returned |-> <<>>, upserted |-> <<>>, synced_before |-> 0]

\* No entry point has started.
SyncIdle ==
    /\ entry = "direct"
    /\ ep = [pc |-> "start", outcome |-> "none"]
    /\ rs = [pc |-> "idle", how |-> "none", movie_candidates |-> <<>>,
             book_items |-> <<>>, k |-> 0, synced_movies |-> 0,
             synced_books |-> 0]
    /\ movies_table = <<>>
    /\ books_table = <<>>
    /\ last = NoLast
    /\ run = 1
    /\ tape = [movies |-> <<>>, books |-> <<>>, answers |-> <<>>]
    /\ after_first = <<<<>>, <<>>>>
    /\ log = <<>>

\* No request to the API is being served.
ApiIdle ==
    api = [pc |-> "idle", item_id |-> "", type |-> "", limit |-> 0,
           rpc_function |-> "", embedding |-> JNull, data |-> <<>>,
           status |-> 0, detail |-> "", recommendations |-> <<>>,
           handler |-> "", raised |-> 0]

InitEmbed ==
    /\ TMDB_API_KEY = TRUE
    /\ SUPABASE_URL = TRUE
    /\ SUPABASE_KEY = TRUE
    /\ HF_TOKEN \in BOOLEAN
    /\ ge = [pc |-> "call", i |-> 0, ret |-> None, slept |-> <<>>]
    /\ hf_log = <<>>
    /\ CrawlIdle
    /\ SyncIdle
    /\ ApiIdle

\* get_embedding is entered.
EmbedCall ==
    /\ ge.pc = "call"
    /\ ge' = GE_Begin(HF_TOKEN)
    /\ UNCHANGED <<creds, hf_log, crawlVars, syncVars, apiVars>>

\* One requests.post and the handling of its answer.
EmbedRequest ==
    /\ ge.pc = "request"
    /\ \E resp \in EmbedResponses :
          /\ ge' = GE_Step(ge, resp)
          /\ hf_log' = Append(hf_log, resp)
    /\ UNCHANGED <<creds, crawlVars, syncVars, apiVars>>

NextEmbed == EmbedCall \/ EmbedRequest

SpecEmbed == InitEmbed /\ [][NextEmbed]_vars

\* The sum of the time.sleep arguments.
RECURSIVE TotalWait(_)
TotalWait(slept) ==
    IF slept = <<>> THEN 0 ELSE Head(slept) + TotalWait(Tail(slept))

IsWarmingUp(resp) == resp.kind = "http" /\ resp.status = 503

\* C22: in one get_embedding call the 503 answer to attempt k is followed by
\* a wait of 5*k seconds, whatever the earlier attempts met, so the waits
\* after 503 answers strictly increase; a request error is followed by 2
\* seconds; the waits of one call add up to at most 75 seconds.
WarmupWaitsIncrease ==
    /\ Len(ge.slept) <= Len(hf_log) /\ Len(ge.slept) <= 5
    /\ \A k \in 1..Len(ge.slept) :
          ge.slept[k] = IF IsWarmingUp(hf_log[k]) THEN 5 * k ELSE 2
    /\ \A j, k \in 1..Len(ge.slept) :
          (j < k /\ IsWarmingUp(hf_log[j]) /\ IsWarmingUp(hf_log[k]))
              => ge.slept[j] < ge.slept[k]
    /\ TotalWait(ge.slept) <= 5 + 10 + 15 + 20 + 25
WarmupWaitsWitness ==
    /\ ge.pc = "returned"
    /\ hf_log = <<NetworkError, Http(503, JNull), Http(503, JNull),
                  NetworkError, Http(503, JNull)>>
    /\ ge.slept = <<2, 10, 15, 2, 25>>
WarmupMaxWaitWitness ==
    ge.pc = "returned" /\ TotalWait(ge.slept) = 75

AllWarmingUp == \A k \in 1..Len(hf_log) : hf_log[k] = Http(503, JNull)

\* C4: against a backend that answers every request with 503, one call of
\* get_embedding (HF_TOKEN set) makes exactly 5 requests, never a 6th, and
\* returns None.
AlwaysWarmingUpStopsAtFive ==
    AllWarmingUp =>
        /\ Len(hf_log) <= 5
        /\ (Len(hf_log) = 5 => ge.pc = "returned")
        /\ (ge.pc = "returned" /\ HF_TOKEN => Len(hf_log) = 5 /\ ge.ret = None)
AlwaysWarmingUpWitness ==
    AllWarmingUp /\ Len(hf_log) = 5 /\ ge.pc = "returned" /\ ge.ret = None

IsDefinitiveError(resp) == resp.kind = "http" /\ resp.status \notin {200, 503}

\* C5: a response with a status other than 200 and 503 is the last request of
\* the call, on whatever attempt it arrives, and the call returns None.
DefinitiveErrorNotRetried ==
    \A k \in 1..Len(hf_log) :
        IsDefinitiveError(hf_log[k]) =>
            k = Len(hf_log) /\ ge.pc = "returned" /\ ge.ret = None
DefinitiveErrorWitness ==
    /\ Len(hf_log) = 3
    /\ hf_log[1] = NetworkError
    /\ hf_log[2] = Http(503, JNull)
    /\ hf_log[3] = Http(401, JNull)
    /\ ge.pc = "returned"

LastIsException ==
    Len(hf_log) > 0 /\ hf_log[Len(hf_log)] = NetworkError

\* C6: exceptions and 503 responses share one budget: a call never makes more
\* than 5 requests, and after an exception the call has slept 2 seconds and is
\* about to send the next request unless that was the 5th.
SharedAttemptBudget ==
    /\ Len(hf_log) <= 5
    /\ LastIsException =>
          /\ ge.slept[Len(ge.slept)] = 2
          /\ (Len(hf_log) < 5 => ge.pc = "request")
          /\ (Len(hf_log) = 5 => ge.pc = "returned" /\ ge.ret = None)
SharedAttemptBudgetWitness ==
    /\ Len(hf_log) = 5
    /\ hf_log[1] = NetworkError
    /\ hf_log[2] = Http(503, JNull)
    /\ hf_log[3] = NetworkError
    /\ hf_log[4] = Http(503, JNull)
    /\ hf_log[5] = NetworkError
    /\ ge.pc = "returned"

\* The call returned on a 200 response whose body parsed as a list.
SucceededWithList ==
    /\ ge.pc = "returned" /\ Len(hf_log) > 0
    /\ hf_log[Len(hf_log)].status = 200
    /\ IsList(hf_log[Len(hf_log)].body)

\* C16: the value get_embedding returns on a 200 response with a list body is
\* flat: it is a list and none of its elements is itself a list.
ReturnedVectorIsFlat ==
    SucceededWithList =>
        /\ IsList(ge.ret)
        /\ \A n \in 1..Len(ge.ret.items) : ~IsList(ge.ret.items[n])

----------------------------------------------------------------------------
(* Raw catalog items.  A key the item does not hold is JMissing.            *)

MovieA ==
    [id |-> JNum(1), title |-> JStr("A"), overview |-> JStr("o"),
     release_date |-> JStr("20"), poster_path |-> JStr("/a"),
     original_language |-> JStr("hi"),
     origin_country |-> JList(<<JStr("IN")>>)]
RECURSIVE Doubled(_, _)
Doubled(s, n) == IF n = 0 THEN s ELSE Doubled(s \o s, n - 1)
\* An overview of 2048 characters, more than text_content may hold.
LongOverview == Doubled("pq", 10)

\* The same tmdb id as MovieA with other field values.
MovieA2 ==
    [id |-> JNum(1), title |-> JStr("B"), overview |-> JStr(LongOverview),
     release_date |-> JStr(""), poster_path |-> JNull,
     original_language |-> JStr("te"),
     origin_country |-> JStr("IN")]
MovieB ==
    [id |-> JNum(2), title |-> JStr("C"), overview |-> JStr("q"),
     release_date |-> JMissing, poster_path |-> JMissing,
     original_language |-> JMissing, origin_country |-> JMissing]

VolumeInfo(title, description, authors, imageLinks, categories) ==
    [t |-> "dict", title |-> title, description |-> description,
     authors |-> authors, imageLinks |-> imageLinks, categories |-> categories]
BookA ==
    [id |-> JStr("x"),
     volumeInfo |-> VolumeInfo(JStr("A"), JStr("d"),
                               JList(<<JStr("w")>>),
                               [t |-> "dict", thumbnail |-> JStr("u")],
                               JList(<<JStr("c")>>))]
BookB ==
    [id |-> JStr("y"),
     volumeInfo |-> VolumeInfo(JStr("B"), JStr("e"),
                               JMissing, JMissing, JMissing)]

----------------------------------------------------------------------------
(* The catalogs' answers to one requests.get.  The body of a listing page  *)
(* is a dict whose 'results' (TMDB) or 'items' (Google Books) key holds the*)
(* page's items; a dict without the key reads as the empty page.           *)

PageBody(items) == [t |-> "dict", items |-> items]

languages == <<"hi", "te", "ta", "kn", "ml", "pa", "bn", "mr">>

queries ==
    <<"fiction", "mystery", "history", "science", "biography", "thriller",
      "philosophy", "technology", "romance", "fantasy", "business", "travel",
      "self-help", "poetry", "art", "psychology", "economics", "cooking",
      "health", "religion", "politics", "sociology", "education", "law",
      "adventure", "classics", "comics", "drama", "horror">>

\* approx 20 movies per page
MoviesPerPage == 20
\* the extra pages per language
ExtraPages == 5
\* len(all_movies) > total_target + 500
SafetyMargin == 500
\* maxResults=40, range(0, items_per_query, 40)
BooksPerPage == 40
\* time.sleep(2) on a 429, time.sleep(0.5) after a page of books, in ms
RateLimitDelayMs == 2000
BooksDelayMs == 500

pages_per_lang(total_target) ==
    ((total_target \div Len(languages)) \div MoviesPerPage) + ExtraPages

----------------------------------------------------------------------------
(* get_indian_movies and get_global_books, as state machines over          *)
(*   [fn, pc, part, page, all, arg, slept]:                                *)
(* part indexes languages / queries, page is the page number / start_index *)
(* of the next request, all is all_movies / all_books, arg is total_target *)
(* / items_per_query, slept the milliseconds of time.sleep in the latest  *)
(* pass through the loop body.                                             *)

GIM_Begin(total_target) ==
    [fn |-> "movies", pc |-> "request", part |-> 1, page |-> 1,
     all |-> <<>>, arg |-> total_target, slept |-> 0]

\* `break`, or the end of range(1, pages_per_lang + 1): the next language,
\* or `return all_movies` after the last.
GIM_NextLang(st) ==
    IF st.part < Len(languages)
    THEN [st EXCEPT !.part = st.part + 1, !.page = 1]
    ELSE [st EXCEPT !.pc = "returned"]

\* `continue`, or the end of the loop body: the next value of `page`.
GIM_Continue(st) ==
    IF st.page < pages_per_lang(st.arg)
    THEN [st EXCEPT !.page = st.page + 1]
    ELSE GIM_NextLang(st)

\* Mutant: after a 429 the same page is requested again.
GIM_On429Retry(st) == [st EXCEPT !.slept = RateLimitDelayMs]

\* if response.status_code == 429: time.sleep(2); continue
GIM_On429(st) ==
    GIM_Continue([st EXCEPT !.slept = RateLimitDelayMs])

\* Mutant: a failed page ends the crawl of its language.
GIM_OnExceptionBreak(st) == GIM_NextLang(st)

\* except Exception: log; continue
GIM_OnException(st) == GIM_Continue(st)

\* results = data.get('results', []) and what follows
GIM_OnResults(st, results) ==
    IF Len(results) = 0
    THEN GIM_NextLang(st)
    ELSE LET ext == [st EXCEPT !.all = st.all \o results]
         IN  IF Len(ext.all) > st.arg + SafetyMargin
             THEN GIM_NextLang(ext)
             ELSE GIM_Continue(ext)

\* One pass through the body of the page loop, given the catalog's answer.
GIM_Step(st0, resp) ==
    LET st == [st0 EXCEPT !.slept = 0]
    IN  IF resp.kind = "exc" THEN GIM_OnException(st)
        ELSE IF resp.status = 429 THEN GIM_On429(st)
        ELSE IF resp.status >= 400 THEN GIM_OnException(st)
        ELSE IF resp.body.t # "dict" THEN GIM_OnException(st)
        ELSE GIM_OnResults(st, resp.body.items)

GGB_Begin(items_per_query) ==
    [fn |-> "books", pc |-> IF items_per_query > 0 THEN "request" ELSE "returned",
     part |-> 1, page |-> 0, all |-> <<>>, arg |-> items_per_query,
     slept |-> 0]

\* `break`, or the end of range(0, items_per_query, 40): the next query, or
\* `return all_books` after the last.
GGB_NextQuery(st) ==
    IF st.part < Len(queries)
    THEN [st EXCEPT !.part = st.part + 1, !.page = 0]
    ELSE [st EXCEPT !.pc = "returned"]

\* `continue`, or the end of the loop body: the next start_index.
GGB_Continue(st) ==
    IF st.page + BooksPerPage < st.arg
    THEN [st EXCEPT !.page = st.page + BooksPerPage]
    ELSE GGB_NextQuery(st)

\* except Exception: log; continue
GGB_OnException(st) == GGB_Continue(st)

\* items = data.get('items', []) and what follows
GGB_OnItems(st, items) ==
    IF Len(items) = 0
    THEN GGB_NextQuery(st)
    ELSE GGB_Continue([st EXCEPT !.all = st.all \o items,
                                 !.slept = BooksDelayMs])

\* One pass through the body of the start_index loop.
GGB_Step(st0, resp) ==
    LET st == [st0 EXCEPT !.slept = 0]
    IN  IF resp.kind = "exc" THEN GGB_OnException(st)
        ELSE IF resp.status >= 400 THEN GGB_OnException(st)
        ELSE IF resp.body.t # "dict" THEN GGB_OnException(st)
        ELSE GGB_OnItems(st, resp.body.items)

----------------------------------------------------------------------------
(* SpecCrawl: one call of get_indian_movies or get_global_books, one page  *)
(* request at a time.                                                      *)

\* The catalog side holds at most MaxCandidates items, MaxPageItems a page.
MaxCandidates == 3
MaxPageItems == 2

CrawlMovies == {MovieA, MovieB}
CrawlBooks == {BookA, BookB}

\* The sequences of 1..n items of S.
Pages(S, n) == UNION { [1..k -> S] : k \in 1..n }

CatalogStatuses == {404, 429, 500}

\* The answers to a page request once `have` items were handed out.
CatalogResponses(S, have) ==
    { Http(200, PageBody(items)) :
        items \in { p \in Pages(S, MaxPageItems) : have + Len(p) <= MaxCandidates } }
    \cup { Http(200, PageBody(<<>>)), Http(200, JInvalid), NetworkError }
    \cup { Http(s, JNull) : s \in CatalogStatuses }

\* Ghost: how the caller of requests.get sees an answer.
Outcome(fn, resp) ==
    IF resp.kind = "exc" THEN "exception"
    ELSE IF resp.status = 429 /\ fn = "movies" THEN "429"
    ELSE IF resp.status # 200 THEN "error"
    ELSE IF resp.body.t # "dict" THEN "exception"
    ELSE IF Len(resp.body.items) = 0 THEN "empty"
    ELSE "ok"

TotalTargets == {50, 2200}
ItemsPerQuery == {80, 120}

InitCrawl ==
    /\ TMDB_API_KEY = TRUE
    /\ SUPABASE_URL = TRUE
    /\ SUPABASE_KEY = TRUE
    /\ HF_TOKEN = TRUE
    /\ ge = [pc |-> "call", i |-> 0, ret |-> None, slept |-> <<>>]
    /\ hf_log = <<>>
    /\ CrawlIdle
    /\ SyncIdle
    /\ ApiIdle

\* get_indian_movies(total_target) is entered.
CallMovies ==
    /\ cr.pc = "idle"
    /\ \E total_target \in TotalTargets : cr' = GIM_Begin(total_target)
    /\ UNCHANGED <<creds, embedVars, cat_last, fetched, syncVars, apiVars>>

\* get_global_books(items_per_query) is entered.
CallBooks ==
    /\ cr.pc = "idle"
    /\ \E items_per_query \in ItemsPerQuery : cr' = GGB_Begin(items_per_query)
    /\ UNCHANGED <<creds, embedVars, cat_last, fetched, syncVars, apiVars>>

\* Ghost bookkeeping of one page request; requests counts the requests sent
\* for the language or query of this one, this one included.
Observe(resp) ==
    /\ cat_last' = [part |-> cr.part, page |-> cr.page,
                    outcome |-> Outcome(cr.fn, resp),
                    requests |-> IF cat_last.part = cr.part
                                 THEN cat_last.requests + 1 ELSE 1]
    /\ fetched' = IF Outcome(cr.fn, resp) = "ok"
                  THEN fetched \o resp.body.items ELSE fetched

\* A page of 'results' that alone takes len(all_movies) over
\* total_target + 500.
MarginPage(total_target) ==
    [k \in 1..(total_target + SafetyMargin + 1) |-> MovieB]

\* TMDB's answers to a page request: those of the small catalog, and to a
\* small-target call that has fetched nothing the page that reaches the
\* safety margin.
MovieResponses ==
    CatalogResponses(CrawlMovies, Len(fetched))
    \cup IF fetched = <<>> /\ cr.arg = 50
         THEN { Http(200, PageBody(MarginPage(cr.arg))) }
         ELSE {}

\* One requests.get of get_indian_movies and the handling of its answer.
MoviesRequest ==
    /\ cr.fn = "movies" /\ cr.pc = "request"
    /\ \E resp \in MovieResponses :
          /\ cr' = GIM_Step(cr, resp)
          /\ Observe(resp)
    /\ UNCHANGED <<creds, embedVars, syncVars, apiVars>>

\* One requests.get of get_global_books and the handling of its answer.
BooksRequest ==
    /\ cr.fn = "books" /\ cr.pc = "request"
    /\ \E resp \in CatalogResponses(CrawlBooks, Len(fetched)) :
          /\ cr' = GGB_Step(cr, resp)
          /\ Observe(resp)
    /\ UNCHANGED <<creds, embedVars, syncVars, apiVars>>

NextCrawl == CallMovies \/ CallBooks \/ MoviesRequest \/ BooksRequest

SpecCrawl == InitCrawl /\ [][NextCrawl]_vars

\* C1: after a 429 answer to the request for page P of language L, the crawler
\* has slept the cooldown and its next request is again for page P of L.
RateLimitRetriesSamePage ==
    cat_last.outcome = "429" =>
        /\ cr.pc = "request"
        /\ cr.part = cat_last.part
        /\ cr.page = cat_last.page
        /\ cr.slept = 2000

\* The position after the failed request for (part, page), as the loops of the
\* two crawlers enumerate their pages.
AfterPage(fn, part, page, arg) ==
    IF fn = "movies"
    THEN IF page < ((arg \div 8) \div 20) + 5
         THEN [pc |-> "request", part |-> part, page |-> page + 1]
         ELSE IF part < 8
              THEN [pc |-> "request", part |-> part + 1, page |-> 1]
              ELSE [pc |-> "returned", part |-> part, page |-> page]
    ELSE IF page + 40 < arg
         THEN [pc |-> "request", part |-> part, page |-> page + 40]
         ELSE IF part < 29
              THEN [pc |-> "request", part |-> part + 1, page |-> 0]
              ELSE [pc |-> "returned", part |-> part, page |-> page]

\* C8: a page whose fetch fails (an exception or an error status, 429 apart
\* for the movies) is skipped alone: the crawler is at the next page of the
\* same partition, or at the first page of the next partition, and holds the
\* items of every page fetched so far, which it returns.
FailedPageSkippedAlone ==
    /\ cr.all = fetched
    /\ cat_last.outcome \in {"error", "exception"} =>
          [pc |-> cr.pc, part |-> cr.part, page |-> cr.page]
             = AfterPage(cr.fn, cat_last.part, cat_last.page, cr.arg)
FailedPageWitness ==
    /\ cr.fn = "movies" /\ cr.arg = 50
    /\ cat_last = [part |-> 1, page |-> 2, outcome |-> "error",
                   requests |-> 2]
    /\ cr.part = 1 /\ cr.page = 3 /\ cr.pc = "request"
    /\ cr.all = <<MovieA, MovieB>>

\* The crawl under a catalog that answers every request, or lets it fail:
\* a call that has been entered goes on to its next request.
SpecCrawlFair == SpecCrawl /\ WF_vars(NextCrawl)

\* No language was sent more requests than the page cap.
RequestsWithinCap ==
    cr.fn = "movies" =>
        /\ cat_last.requests <= ((cr.arg \div 8) \div 20) + 5
        /\ cat_last.part <= cr.part /\ cr.part <= 8

\* An empty page ends the crawl of its language and of nothing else.
EmptyPageEndsLanguage ==
    (cr.fn = "movies" /\ cat_last.outcome = "empty") =>
        IF cat_last.part < 8
        THEN cr.pc = "request" /\ cr.part = cat_last.part + 1 /\ cr.page = 1
        ELSE cr.pc = "returned"

\* C23: get_indian_movies returns whatever the catalog answers, 429 to every
\* request included; it sends a language at most (T // 8 // 20) + 5 requests
\* and goes through the 8 languages once; an empty page takes it to the next
\* language.
MovieCrawlTerminates ==
    /\ [](RequestsWithinCap /\ EmptyPageEndsLanguage)
    /\ (cr.fn = "movies") ~> (cr.pc = "returned")
MovieCrawlWitness ==
    /\ cr.fn = "movies" /\ cr.arg = 50 /\ cr.pc = "returned"
    /\ cat_last = [part |-> 8, page |-> 5, outcome |-> "429", requests |-> 5]
    /\ fetched = <<>>

\* C21: once len(all_movies) exceeds total_target + 500 get_indian_movies
\* issues no further page request, for any language: it has returned.
MarginStopsCrawl ==
    (cr.fn = "movies" /\ Len(cr.all) > cr.arg + 500) => cr.pc = "returned"

----------------------------------------------------------------------------
(* run_sync: the normalisation of a candidate, its payload and the store.  *)

\* supabase: the client, or None when a store credential is missing.
supabase == SUPABASE_URL /\ SUPABASE_KEY

\* A candidate that is a JSON object is the record of its keys; any other
\* JSON value carries its tag t, and has no method get.
IsDict(item) == "t" \notin DOMAIN item

\* logger.info(f"... {n} ..."): a count line of run_sync.
LogLine(line, n) == [line |-> line, n |-> n]

\* if synced_movies % 100 == 0: logger.info(f"Progress: {synced_movies} ...")
ProgressEvery == 100
RS_Progress(lines, line, synced) ==
    IF synced % ProgressEvery = 0
    THEN Append(lines, LogLine(line, synced))
    ELSE lines

\* d.get(key): None for a key the dict does not hold.
Get(v) == IF v = JMissing THEN JNull ELSE v
\* d.get(key, default)
GetOr(v, default) == IF v = JMissing THEN default ELSE v

\* A value inside an f-string.
FStr(v) == IF v.t = "str" THEN v.s ELSE "None"

\* [:2000]
MaxText == 2000

\* Mutant: text_content is not cut.
NoTruncate(s) == s

Truncate(s) == IF Len(s) > MaxText THEN SubSeq(s, 1, MaxText) ELSE s

\* Mutant: the validation looks at the title alone.
MovieValidTitleOnly(m) == Truthy(Get(m.title))

\* not (not m.get('overview') or not m.get('title'))
MovieValid(m) == Truthy(Get(m.overview)) /\ Truthy(Get(m.title))

\* text_content = f"{m['title']}. {m.get('overview', '')}"[:2000]
MovieText(m) ==
    Truncate(FStr(m.title) \o ". " \o FStr(GetOr(m.overview, JStr(""))))

PosterBase == "https://image.tmdb.org/t/p/w500"

\* movie_payload
MoviePayload(m, embedding) ==
    [tmdb_id |-> m.id,
     title |-> m.title,
     overview |-> m.overview,
     release_date |->
        IF Truthy(Get(m.release_date)) THEN Get(m.release_date) ELSE JNull,
     poster_url |->
        IF Truthy(Get(m.poster_path))
        THEN JStr(PosterBase \o FStr(m.poster_path)) ELSE JNull,
     language |-> Get(m.original_language),
     origin_country |->
        IF Get(m.origin_country).t = "str"
        THEN JList(<<Get(m.origin_country)>>) ELSE Get(m.origin_country),
     embedding |-> embedding]

\* vol = b.get('volumeInfo', {})
EmptyVol == VolumeInfo(JMissing, JMissing, JMissing, JMissing, JMissing)
Vol(b) == IF b.volumeInfo = JMissing THEN EmptyVol ELSE b.volumeInfo

\* description = vol.get('description', '')
Description(b) == GetOr(Vol(b).description, JStr(""))

\* not (not description or not vol.get('title'))
BookValid(b) == Truthy(Description(b)) /\ Truthy(Get(Vol(b).title))

\* text_content = f"{vol.get('title')}. {description}"[:2000]
BookText(b) ==
    Truncate(FStr(Get(Vol(b).title)) \o ". " \o FStr(Description(b)))

\* book_payload
BookPayload(b, embedding) ==
    [google_id |-> b.id,
     title |-> Get(Vol(b).title),
     authors |-> GetOr(Vol(b).authors, JList(<<>>)),
     description |-> Description(b),
     thumbnail_url |->
        IF Vol(b).imageLinks = JMissing
        THEN JNull ELSE Get(Vol(b).imageLinks.thumbnail),
     categories |-> GetOr(Vol(b).categories, JList(<<>>)),
     embedding |-> embedding]

\* Mutant: a plain insert, whatever rows the table holds.
Insert(table, row, key) == Append(table, row)

\* Mutant: on a conflict the stored row is kept.
UpsertKeepFirst(table, row, key) ==
    IF \E n \in 1..Len(table) : table[n][key] = row[key]
    THEN table
    ELSE Append(table, row)

\* supabase.table(..).upsert(row, on_conflict=key).execute(): the row that
\* holds the key's value is replaced, and the row is added when none does.
Upsert(table, row, key) ==
    IF \E n \in 1..Len(table) : table[n][key] = row[key]
    THEN [n \in 1..Len(table) |->
             IF table[n][key] = row[key] THEN row ELSE table[n]]
    ELSE Append(table, row)

\* Mutant: the candidate is saved whatever get_embedding returned.
StageUnchecked(valid, embedding, has_id, store_ok) ==
    IF ~valid THEN "invalid"
    ELSE IF ~has_id THEN "key_error"
    ELSE IF ~store_ok THEN "upsert_raised"
    ELSE "synced"

\* What one pass through the body of a candidate loop comes to: the candidate
\* fails the validation, get_embedding returns nothing, building the payload
\* raises KeyError (no 'id'), the upsert raises, or the row is saved.
Stage(valid, embedding, has_id, store_ok) ==
    IF ~valid THEN "invalid"
    ELSE IF ~Truthy(embedding) THEN "embed_failed"
    ELSE IF ~has_id THEN "key_error"
    ELSE IF ~store_ok THEN "upsert_raised"
    ELSE "synced"

\* `continue`, or the end of the loop body: the next candidate.
RS_NextCandidate(st) == [st EXCEPT !.k = st.k + 1]

\* Mutant: an exception in the loop body leaves run_sync.
RS_OnSaveErrorAbort(st) == [st EXCEPT !.pc = "returned", !.how = "raised"]

\* except Exception: log "Database error saving ..."; the next candidate.
RS_OnSaveError(st) == RS_NextCandidate(st)

\* except Exception: logger.error(f"... {m.get('title')}: {e}") for an m that
\* has no get: the handler raises AttributeError, which leaves run_sync.
RS_OnHandlerError(st) == [st EXCEPT !.pc = "returned", !.how = "raised"]

\* One pass through the body of `for m in movie_candidates`.
RS_Movie(st, stage) ==
    IF stage = "synced"
    THEN RS_NextCandidate([st EXCEPT !.synced_movies = st.synced_movies + 1])
    ELSE IF stage \in {"key_error", "upsert_raised"}
    THEN RS_OnSaveError(st)
    ELSE RS_NextCandidate(st)

\* One pass through the body of `for b in book_items`.
RS_Book(st, stage) ==
    IF stage = "synced"
    THEN RS_NextCandidate([st EXCEPT !.synced_books = st.synced_books + 1])
    ELSE IF stage \in {"key_error", "upsert_raised"}
    THEN RS_OnSaveError(st)
    ELSE RS_NextCandidate(st)

----------------------------------------------------------------------------
(* The crawlers as run_sync calls them: a whole call against a catalog     *)
(* that answers the n-th request with script[n] and every later request    *)
(* with rest.                                                              *)

AnswerAt(script, n, rest) == IF n <= Len(script) THEN script[n] ELSE rest

RECURSIVE GIM_Run(_, _, _, _)
GIM_Run(st, script, rest, sent) ==
    IF st.pc = "returned"
    THEN st.all
    ELSE GIM_Run(GIM_Step(st, AnswerAt(script, sent + 1, rest)),
                 script, rest, sent + 1)

get_indian_movies(total_target, script, rest) ==
    GIM_Run(GIM_Begin(total_target), script, rest, 0)

RECURSIVE GGB_Run(_, _, _, _)
GGB_Run(st, script, rest, sent) ==
    IF st.pc = "returned"
    THEN st.all
    ELSE GGB_Run(GGB_Step(st, AnswerAt(script, sent + 1, rest)),
                 script, rest, sent + 1)

get_global_books(items_per_query, script, rest) ==
    GGB_Run(GGB_Begin(items_per_query), script, rest, 0)

----------------------------------------------------------------------------
(* Spec: an entry point and run_sync, one candidate at a time, and after a *)
(* completed run a second run against the unchanged upstream.              *)

\* The catalogs hold at most MaxSyncItems candidates, movies and books.
MaxSyncItems == 2

MovieNoTitle == [MovieB EXCEPT !.title = JMissing]
MovieEmptyTitle == [MovieB EXCEPT !.title = JStr("")]
MovieNoOverview == [MovieB EXCEPT !.overview = JMissing]
MovieEmptyOverview == [MovieB EXCEPT !.overview = JStr("")]
MovieNoId == [MovieB EXCEPT !.id = JMissing]
\* A null among the 'results' of a page.
MovieNull == JNull
SyncMovies ==
    { MovieA, MovieA2, MovieNoTitle, MovieEmptyTitle, MovieNoOverview,
      MovieEmptyOverview, MovieNoId, MovieNull }

\* The same google id as BookA with other field values.
BookA2 ==
    [id |-> JStr("x"),
     volumeInfo |-> VolumeInfo(JStr("B"), JStr("e"), JMissing,
                               [t |-> "dict", thumbnail |-> JMissing],
                               JMissing)]
BookNoVolume == [id |-> JStr("y"), volumeInfo |-> JMissing]
BookNoTitle == [BookB EXCEPT !.volumeInfo.title = JMissing]
BookEmptyTitle == [BookB EXCEPT !.volumeInfo.title = JStr("")]
BookNoDescription == [BookB EXCEPT !.volumeInfo.description = JMissing]
BookEmptyDescription == [BookB EXCEPT !.volumeInfo.description = JStr("")]
SyncBooks ==
    { BookA, BookA2, BookNoVolume, BookNoTitle, BookEmptyTitle,
      BookNoDescription, BookEmptyDescription }

\* The catalog scripts of at most n answers: pages of one item of S and
\* failed requests.
SyncResponses(S) ==
    { Http(200, PageBody(<<item>>)) : item \in S }
    \cup { Http(429, JNull), Http(500, JNull), NetworkError }
Scripts(S, n) == UNION { [1..k -> SyncResponses(S)] : k \in 0..n }

EmptyPage == Http(200, PageBody(<<>>))

\* What get_indian_movies(total_target=2200) may return: against the catalog
\* scripts when the api key is set, and against a TMDB that refuses every
\* request when it is not.
MovieLists ==
    [key \in BOOLEAN |->
        IF key
        THEN { get_indian_movies(2200, script, EmptyPage) :
                  script \in Scripts(SyncMovies, MaxSyncItems) }
        ELSE { get_indian_movies(2200, <<>>, Http(401, JNull)) }]

\* What get_global_books(items_per_query=120) may return when the catalog
\* has n candidates left.
BookLists ==
    [n \in 0..MaxSyncItems |->
        { get_global_books(120, script, EmptyPage) :
             script \in Scripts(SyncBooks, n) }]

\* The embedding backend's behaviours during one get_embedding call: the
\* same answer to every request, or a request error and then a vector.
SyncFinals ==
    { Http(200, Flat(D)), Http(200, Wrap(Flat(D))), Http(200, Flat(WrongLen)),
      Http(200, JObj(1)), Http(200, Flat(0)), Http(401, JNull),
      Http(503, JNull) }
SyncEmbedScripts ==
    { [j \in 1..Attempts |-> f] : f \in SyncFinals }
    \cup { [j \in 1..Attempts |->
              IF j = 1 THEN NetworkError ELSE Http(200, Flat(D))] }

EntryPoints == {"sync_engine", "run_sync_py", "direct"}

Init ==
    /\ TMDB_API_KEY \in BOOLEAN
    /\ SUPABASE_URL \in BOOLEAN
    /\ SUPABASE_KEY \in BOOLEAN
    /\ HF_TOKEN \in BOOLEAN
    /\ ge = [pc |-> "call", i |-> 0, ret |-> None, slept |-> <<>>]
    /\ hf_log = <<>>
    /\ CrawlIdle
    /\ entry \in EntryPoints
    /\ ep = [pc |-> "start", outcome |-> "none"]
    /\ rs = [pc |-> "idle", how |-> "none", movie_candidates |-> <<>>,
             book_items |-> <<>>, k |-> 0, synced_movies |-> 0,
             synced_books |-> 0]
    /\ movies_table = <<>>
    /\ books_table = <<>>
    /\ last = NoLast
    /\ run = 1
    /\ tape = [movies |-> <<>>, books |-> <<>>, answers |-> <<>>]
    /\ after_first = <<<<>>, <<>>>>
    /\ log = <<>>
    /\ ApiIdle

\* run_sync() is called.
RS_Called == [rs EXCEPT !.pc = "start"]

\* api/sync_engine.py run as a script: every secret must be set.
EngineMain ==
    /\ entry = "sync_engine" /\ ep.pc = "start"
    /\ IF ~TMDB_API_KEY \/ ~SUPABASE_URL \/ ~SUPABASE_KEY \/ ~HF_TOKEN
       THEN /\ ep' = [pc |-> "ended", outcome |-> "missing"]
            /\ UNCHANGED rs
       ELSE /\ ep' = [ep EXCEPT !.pc = "running"]
            /\ rs' = RS_Called
    /\ UNCHANGED <<creds, embedVars, crawlVars, entry, movies_table,
                   books_table, last, run, tape, after_first, log, apiVars>>

\* run_sync.py up to the prompt: required_vars must be set, or sys.exit(1).
ScriptMain ==
    /\ entry = "run_sync_py" /\ ep.pc = "start"
    /\ IF ~TMDB_API_KEY \/ ~SUPABASE_URL \/ ~SUPABASE_KEY
       THEN ep' = [pc |-> "ended", outcome |-> "missing"]
       ELSE ep' = [ep EXCEPT !.pc = "prompt"]
    /\ UNCHANGED <<creds, embedVars, crawlVars, entry, rs, movies_table,
                   books_table, last, run, tape, after_first, log, apiVars>>

\* run_sync.py: input("Continue? (yes/no): "), then run_sync() or sys.exit(0).
ScriptPrompt ==
    /\ entry = "run_sync_py" /\ ep.pc = "prompt"
    /\ \E response \in {"yes", "y", "no"} :
          IF response \notin {"yes", "y"}
          THEN /\ ep' = [pc |-> "ended", outcome |-> "cancelled"]
               /\ UNCHANGED rs
          ELSE /\ ep' = [ep EXCEPT !.pc = "running"]
               /\ rs' = RS_Called
    /\ UNCHANGED <<creds, embedVars, crawlVars, entry, movies_table,
                   books_table, last, run, tape, after_first, log, apiVars>>

\* Another module calls run_sync().
DirectCall ==
    /\ entry = "direct" /\ ep.pc = "start"
    /\ ep' = [ep EXCEPT !.pc = "running"]
    /\ rs' = RS_Called
    /\ UNCHANGED <<creds, embedVars, crawlVars, entry, movies_table,
                   books_table, last, run, tape, after_first, log, apiVars>>

\* What the catalogs return to this run: the second run is returned what
\* the first run was.
MovieCatalog ==
    IF run = 2 THEN {tape.movies} ELSE MovieLists[TMDB_API_KEY]
BookCatalog ==
    IF run = 2
    THEN {tape.books}
    ELSE BookLists[MaxSyncItems - Len(rs.movie_candidates)]

\* run_sync up to the movie loop: the supabase guard, then
\* movie_candidates = get_indian_movies(total_target=2200) and the log line
\* with their number.
RunSyncBegin ==
    /\ rs.pc = "start"
    /\ IF ~supabase
       THEN /\ rs' = [rs EXCEPT !.pc = "returned", !.how = "no_store"]
            /\ UNCHANGED <<tape, log>>
       ELSE \E got \in MovieCatalog :
                  /\ rs' = [rs EXCEPT !.pc = "movies", !.k = 1,
                                      !.movie_candidates = got,
                                      !.synced_movies = 0]
                  /\ tape' = [tape EXCEPT !.movies = got]
                  /\ log' = Append(log, LogLine("movie candidates fetched",
                                                Len(got)))
    /\ UNCHANGED <<creds, embedVars, crawlVars, entry, ep, movies_table,
                   books_table, last, run, after_first, apiVars>>

\* What the backend and the store answer while one valid candidate is
\* processed: the value get_embedding returns and whether the upsert succeeds.
\* The second run hears what the first run heard.
EmbedResults ==
    [token \in BOOLEAN |->
        { get_embedding(token, script).ret : script \in SyncEmbedScripts }]
Answers ==
    IF run = 2
    THEN {Head(tape.answers)}
    ELSE { [ret |-> ret, ok |-> ok] :
              ret \in EmbedResults[HF_TOKEN], ok \in BOOLEAN }

\* Ghost: the tape after a candidate that heard `answer` and came to `stage`;
\* the store's answer is on the tape when the store was asked.
Taped(answer, stage) ==
    IF run = 2
    THEN [tape EXCEPT !.answers = Tail(tape.answers)]
    ELSE [tape EXCEPT !.answers =
             Append(tape.answers,
                    [answer EXCEPT !.ok = (stage # "upsert_raised")])]

\* Ghost: the record of a candidate dropped at the validation.
Dropped(domain, synced) ==
    [domain |-> domain, index |-> rs.k, stage |-> "invalid", texts |-> <<>>,
     returned |-> <<>>, upserted |-> <<>>, synced_before |-> synced]

\* One pass through the body of `for m in movie_candidates`.
ProcessMovie ==
    /\ rs.pc = "movies" /\ rs.k <= Len(rs.movie_candidates)
    /\ LET m == rs.movie_candidates[rs.k]
       IN  IF ~IsDict(m)
           THEN /\ rs' = RS_OnHandlerError(rs)
                /\ last' = [Dropped("movies", rs.synced_movies)
                               EXCEPT !.stage = "handler_raised"]
                /\ UNCHANGED <<movies_table, tape, log>>
           ELSE IF ~MovieValid(m)
           THEN /\ rs' = RS_Movie(rs, "invalid")
                /\ last' = Dropped("movies", rs.synced_movies)
                /\ UNCHANGED <<movies_table, tape, log>>
           ELSE \E answer \in Answers :
                  LET stage == Stage(TRUE, answer.ret, m.id # JMissing, answer.ok)
                      sent == stage \in {"upsert_raised", "synced"}
                  IN  /\ rs' = RS_Movie(rs, stage)
                      /\ movies_table' =
                            IF stage = "synced"
                            THEN Upsert(movies_table,
                                        MoviePayload(m, answer.ret), "tmdb_id")
                            ELSE movies_table
                      /\ last' = [domain |-> "movies", index |-> rs.k,
                                  stage |-> stage, texts |-> <<MovieText(m)>>,
                                  returned |-> <<answer.ret>>,
                                  upserted |->
                                     IF sent THEN <<MoviePayload(m, answer.ret)>>
                                     ELSE <<>>,
                                  synced_before |-> rs.synced_movies]
                      /\ tape' = Taped(answer, stage)
                      /\ log' = IF stage = "synced"
                                THEN RS_Progress(log, "movies synced",
                                                 rs.synced_movies + 1)
                                ELSE log
    /\ UNCHANGED <<creds, embedVars, crawlVars, entry, ep, books_table, run,
                   after_first, apiVars>>

\* After the movie loop: the log line with synced_movies, then
\* book_items = get_global_books(items_per_query=120) and the log line with
\* their number.
MoviesEnd ==
    /\ rs.pc = "movies" /\ rs.k > Len(rs.movie_candidates)
    /\ \E got \in BookCatalog :
          /\ rs' = [rs EXCEPT !.pc = "books", !.k = 1, !.book_items = got,
                              !.synced_books = 0]
          /\ tape' = [tape EXCEPT !.books = got]
          /\ log' = log \o
                <<LogLine("unique movies processed", rs.synced_movies),
                  LogLine("book candidates fetched", Len(got))>>
    /\ UNCHANGED <<creds, embedVars, crawlVars, entry, ep, movies_table,
                   books_table, last, run, after_first, apiVars>>

\* One pass through the body of `for b in book_items`.
ProcessBook ==
    /\ rs.pc = "books" /\ rs.k <= Len(rs.book_items)
    /\ LET b == rs.book_items[rs.k]
       IN  IF ~BookValid(b)
           THEN /\ rs' = RS_Book(rs, "invalid")
                /\ last' = Dropped("books", rs.synced_books)
                /\ UNCHANGED <<books_table, tape, log>>
           ELSE \E answer \in Answers :
                  LET stage == Stage(TRUE, answer.ret, b.id # JMissing, answer.ok)
                      sent == stage \in {"upsert_raised", "synced"}
                  IN  /\ rs' = RS_Book(rs, stage)
                      /\ books_table' =
                            IF stage = "synced"
                            THEN Upsert(books_table,
                                        BookPayload(b, answer.ret), "google_id")
                            ELSE books_table
                      /\ last' = [domain |-> "books", index |-> rs.k,
                                  stage |-> stage, texts |-> <<BookText(b)>>,
                                  returned |-> <<answer.ret>>,
                                  upserted |->
                                     IF sent THEN <<BookPayload(b, answer.ret)>>
                                     ELSE <<>>,
                                  synced_before |-> rs.synced_books]
                      /\ tape' = Taped(answer, stage)
                      /\ log' = IF stage = "synced"
                                THEN RS_Progress(log, "books synced",
                                                 rs.synced_books + 1)
                                ELSE log
    /\ UNCHANGED <<creds, embedVars, crawlVars, entry, ep, movies_table, run,
                   after_first, apiVars>>

\* After the book loop: the log line with synced_books and the return.
BooksEnd ==
    /\ rs.pc = "books" /\ rs.k > Len(rs.book_items)
    /\ rs' = [rs EXCEPT !.pc = "returned", !.how = "completed"]
    /\ log' = Append(log, LogLine("unique books processed", rs.synced_books))
    /\ UNCHANGED <<creds, embedVars, crawlVars, entry, ep, movies_table,
                   books_table, last, run, tape, after_first, apiVars>>

\* KeyboardInterrupt while run_sync runs.  No `except Exception` catches it:
\* it leaves run_sync, whose locals are gone, and ends the entry point;
\* run_sync.py prints "Sync interrupted by user" and exits with status 1.
Interrupt ==
    /\ ep.pc = "running" /\ rs.pc \in {"start", "movies", "books"}
    /\ rs' = [rs EXCEPT !.pc = "returned", !.how = "interrupted",
                        !.movie_candidates = <<>>, !.book_items = <<>>,
                        !.k = 0]
    /\ ep' = [pc |-> "ended", outcome |-> "interrupted"]
    /\ last' = NoLast
    /\ tape' = [movies |-> <<>>, books |-> <<>>, answers |-> <<>>]
    /\ UNCHANGED <<creds, embedVars, crawlVars, entry, movies_table,
                   books_table, run, after_first, log, apiVars>>

\* run_sync has returned to its caller, or raised into it; the caller ends.
EntryEnd ==
    /\ ep.pc = "running" /\ rs.pc = "returned"
    /\ ep' = [pc |-> "ended",
              outcome |-> IF rs.how = "raised" THEN "failed" ELSE "completed"]
    /\ UNCHANGED <<creds, embedVars, crawlVars, entry, rs, movies_table,
                   books_table, last, run, tape, after_first, log, apiVars>>

\* The caller of run_sync() calls it a second time, the upstream unchanged.
Rerun ==
    /\ entry = "direct"
    /\ run = 1 /\ ep.pc = "ended" /\ rs.how = "completed"
    /\ run' = 2
    /\ after_first' = <<movies_table, books_table>>
    /\ ep' = [pc |-> "start", outcome |-> "none"]
    /\ rs' = [pc |-> "idle", how |-> "none", movie_candidates |-> <<>>,
              book_items |-> <<>>, k |-> 0, synced_movies |-> 0,
              synced_books |-> 0]
    /\ last' = NoLast
    /\ log' = <<>>
    /\ UNCHANGED <<creds, embedVars, crawlVars, entry, movies_table,
                   books_table, tape, apiVars>>

Next ==
    \/ EngineMain \/ ScriptMain \/ ScriptPrompt \/ DirectCall
    \/ RunSyncBegin \/ ProcessMovie \/ MoviesEnd \/ ProcessBook \/ BooksEnd
    \/ Interrupt \/ EntryEnd \/ Rerun

Spec == Init /\ [][Next]_vars

IsFlatVector(v) ==
    /\ v.t = "list"
    /\ Len(v.items) = 384
    /\ \A n \in 1..Len(v.items) : v.items[n].t = "num"

\* C2: every row run_sync hands to upsert, and so every row of the movies and
\* books tables, carries as its embedding a flat list of exactly 384 numbers.
UpsertedEmbeddingsAreFlat384 ==
    /\ \A n \in 1..Len(movies_table) : IsFlatVector(movies_table[n].embedding)
    /\ \A n \in 1..Len(books_table) : IsFlatVector(books_table[n].embedding)
    /\ \A n \in 1..Len(last.upserted) : IsFlatVector(last.upserted[n].embedding)

OneRowPerId(table, key) ==
    \A n1, n2 \in 1..Len(table) : table[n1][key] = table[n2][key] => n1 = n2

\* C3: a second run of run_sync against the unchanged upstream adds no row to
\* either table, and when it has completed both tables are as the first run
\* left them, with one row for each tmdb_id and each google_id.
SecondRunChangesNothing ==
    run = 2 =>
        /\ Len(movies_table) = Len(after_first[1])
        /\ Len(books_table) = Len(after_first[2])
        /\ OneRowPerId(movies_table, "tmdb_id")
        /\ OneRowPerId(books_table, "google_id")
        /\ (rs.pc = "returned" /\ rs.how = "completed" =>
               <<movies_table, books_table>> = after_first)
SecondRunWitness ==
    /\ run = 2 /\ rs.pc = "returned" /\ rs.how = "completed"
    /\ rs.synced_movies = 1 /\ rs.synced_books = 1
    /\ Len(movies_table) = 1 /\ Len(books_table) = 1

\* The candidate `last` is about.
LastCandidate ==
    IF last.domain = "movies"
    THEN rs.movie_candidates[last.index]
    ELSE rs.book_items[last.index]
MissingOrEmpty(v) == v \in {JMissing, JNull, JStr("")}
LacksRequiredField(domain, item) ==
    IF ~IsDict(item) THEN FALSE
    ELSE IF domain = "movies"
    THEN MissingOrEmpty(item.title) \/ MissingOrEmpty(item.overview)
    ELSE \/ item.volumeInfo = JMissing
         \/ MissingOrEmpty(item.volumeInfo.title)
         \/ MissingOrEmpty(item.volumeInfo.description)

\* C7: for a movie without a title or an overview, and a book without a title
\* or a description (missing or empty), run_sync calls neither get_embedding
\* nor upsert.
InvalidCandidateDropped ==
    (last.domain # "none" /\ LacksRequiredField(last.domain, LastCandidate)) =>
        last.stage = "invalid" /\ last.texts = <<>> /\ last.upserted = <<>>
InvalidCandidateWitness ==
    /\ last.domain = "movies" /\ last.index = 2
    /\ LastCandidate = MovieEmptyOverview
    /\ Len(movies_table) = 1

SyncedOf(domain) ==
    IF domain = "movies" THEN rs.synced_movies ELSE rs.synced_books

\* C9: a candidate whose upsert raised, whose payload could not be built or
\* whose embedding failed does not make run_sync raise: the loop is at the
\* next candidate with the synced count unchanged, and a run_sync that
\* completes has gone through every book.
SaveFailureSkipsOneRecord ==
    /\ last.stage \in {"upsert_raised", "key_error", "embed_failed"} =>
          /\ rs.how # "raised"
          /\ ep.outcome # "failed"
          /\ rs.pc = last.domain =>
                /\ rs.k = last.index + 1
                /\ SyncedOf(last.domain) = last.synced_before
    /\ (rs.pc = "returned" /\ rs.how = "completed") =>
          rs.k = Len(rs.book_items) + 1
SaveFailureWitness ==
    /\ run = 1 /\ rs.pc = "returned" /\ rs.how = "completed"
    /\ Len(rs.movie_candidates) = 1 /\ rs.synced_movies = 0
    /\ Len(tape.answers) = 2 /\ ~tape.answers[1].ok
    /\ rs.synced_books = 1

OnlyTmdbKeyMissing ==
    ~TMDB_API_KEY /\ SUPABASE_URL /\ SUPABASE_KEY /\ HF_TOKEN

\* C10: when TMDB_API_KEY alone is missing, the sync started through
\* api/sync_engine.py or run_sync.py still runs the book sync.
BookSyncRunsWithoutTmdbKey ==
    (entry \in {"sync_engine", "run_sync_py"} /\ OnlyTmdbKeyMissing
        /\ ep.pc = "ended" /\ ep.outcome # "cancelled") =>
            rs.how = "completed"

\* C11: with HF_TOKEN missing and the store configured, the sync is aborted
\* before any work starts, whatever the entry point: run_sync fetches no
\* catalog, enters neither candidate loop and does not end as completed.
MissingTokenAbortsBeforeWork ==
    (~HF_TOKEN /\ supabase) =>
        /\ rs.pc \notin {"movies", "books"}
        /\ rs.how # "completed"
        /\ ep.outcome # "completed"

\* The log holds the count line `line` with the number n.
Reported(line, n) == \E j \in 1..Len(log) : log[j] = LogLine(line, n)

\* C12: a run that a KeyboardInterrupt ended has logged, before it ended, a
\* partial summary: for each domain, the count of the records synced so far.
InterruptedRunReportsCounts ==
    (rs.how = "interrupted" /\ ep.pc = "ended") =>
        /\ Reported("unique movies processed", rs.synced_movies)
        /\ Reported("unique books processed", rs.synced_books)

\* The counters of a domain's summary.
SummaryCounters ==
    {"fetched", "persisted", "skipped_invalid", "failed_embedding",
     "failed_persist"}
IsTruthfulSummary(summary) ==
    /\ SummaryCounters \subseteq DOMAIN summary
    /\ summary.fetched = summary.persisted + summary.skipped_invalid
                         + summary.failed_embedding + summary.failed_persist

\* C13: when run_sync has completed, its log holds for each of the two
\* domains a summary with the five counters, where fetched is the sum of the
\* four outcome counters.
FiveTruthfulCounters ==
    rs.how = "completed" =>
        Cardinality({ j \in 1..Len(log) : IsTruthfulSummary(log[j]) }) >= 2

\* The source id of a candidate and of a row of its domain's table.
IdKey(domain) == IF domain = "movies" THEN "tmdb_id" ELSE "google_id"
TableOf(domain) == IF domain = "movies" THEN movies_table ELSE books_table

\* C14: for each candidate the order is validate, embed, persist:
\* get_embedding is called only for a candidate that has its required fields,
\* upsert only after that call returned a non-empty value, and the row handed
\* to upsert carries that candidate's id and the value its call returned.
ValidateEmbedPersistOrder ==
    /\ last.texts # <<>> =>
          /\ IsDict(LastCandidate)
          /\ ~LacksRequiredField(last.domain, LastCandidate)
          /\ last.returned # <<>>
    /\ last.upserted # <<>> =>
          /\ last.texts # <<>>
          /\ Truthy(last.returned[1])
          /\ last.upserted[1].embedding = last.returned[1]
          /\ last.upserted[1][IdKey(last.domain)] = LastCandidate.id
ValidateEmbedPersistWitness ==
    /\ last.domain = "books" /\ last.stage = "synced"
    /\ LastCandidate = BookA
    /\ last.upserted[1].embedding = Flat(D)
    /\ Len(books_table) = 1

\* C15: each table holds at most one row for a source id, and after a
\* successful upsert the row of that id is the row that was upserted, in the
\* first run and in the second.
OneRowPerSourceId ==
    /\ OneRowPerId(movies_table, "tmdb_id")
    /\ OneRowPerId(books_table, "google_id")
    /\ last.stage = "synced" =>
          \E n \in 1..Len(TableOf(last.domain)) :
              TableOf(last.domain)[n] = last.upserted[1]
OneRowPerSourceIdWitness ==
    /\ rs.movie_candidates = <<MovieA, MovieA2>>
    /\ last.domain = "movies" /\ last.index = 2 /\ last.stage = "synced"
    /\ Len(movies_table) = 1
    /\ movies_table[1].title = JStr("B")

\* C17: with the store configured, run_sync leaves only through its final
\* report, after the movie loop and the book loop, unless it is interrupted.
RunSyncReachesFinalReport ==
    (supabase /\ rs.pc = "returned" /\ rs.how # "interrupted") =>
        /\ rs.how = "completed"
        /\ Reported("unique books processed", rs.synced_books)

\* No two candidates of the list carry the same source id.
DistinctIds(items) ==
    \A i, j \in 1..Len(items) :
        (IsDict(items[i]) /\ IsDict(items[j]) /\ items[i].id # JMissing
            /\ items[i].id = items[j].id) => i = j

\* C18: the candidate lists hold no source id twice, and the count logged as
\* 'Total unique ... processed' is the number of distinct source ids the run
\* has persisted (the rows of the table, which the first run found empty).
CandidatesAreDeduplicated ==
    /\ DistinctIds(rs.movie_candidates)
    /\ DistinctIds(rs.book_items)
    /\ run = 1 =>
          \A j \in 1..Len(log) :
              /\ log[j].line = "unique movies processed" =>
                    log[j].n = Len(movies_table)
              /\ log[j].line = "unique books processed" =>
                    log[j].n = Len(books_table)

\* title + ". " + description of a valid candidate (overview for a movie).
FullText(domain, item) ==
    IF domain = "movies"
    THEN item.title.s \o ". " \o item.overview.s
    ELSE item.volumeInfo.title.s \o ". " \o item.volumeInfo.description.s

\* C20: the text run_sync passes to get_embedding is not empty and is the
\* first 2000 characters of title + ". " + description, or the whole of it
\* when it is shorter: it is cut before the call.
EmbeddedTextIsTruncated ==
    last.texts # <<>> =>
        LET text == last.texts[1]
            full == FullText(last.domain, LastCandidate)
        IN  /\ Len(text) > 0
            /\ Len(text) = IF Len(full) < 2000 THEN Len(full) ELSE 2000
            /\ text = SubSeq(full, 1, Len(text))
EmbeddedTextWitness ==
    /\ last.domain = "movies" /\ last.stage = "synced"
    /\ LastCandidate = MovieA2
    /\ Len(FullText("movies", MovieA2)) > 2000
    /\ Len(last.texts[1]) = 2000

----------------------------------------------------------------------------
(* api/main.py, get_content_recommendations, as a state machine over       *)
(*   [pc, item_id, type, limit, rpc_function, embedding, data, status,     *)
(*    detail, recommendations]:                                            *)
(* pc is "select" before the lookup of the source item, "rpc" before the   *)
(* nearest-neighbour call and "responded" after the response; embedding is *)
(* item.data['embedding'], data is response.data, status and detail are    *)
(* the response's status code and error detail; handler names the handler *)
(* that serves the request; raised is a ghost, the status of the           *)
(* HTTPException the handler's own code raised (0: none).                  *)

\* supabase in api/main.py: the client, or None without SUPABASE_URL.
api_supabase == SUPABASE_URL

\* str(r['id'])
Str(v) ==
    CASE v.t = "str" -> v.s
      [] v.t = "num" -> ToString(v.n)
      [] OTHER -> "None"

\* Mutant: the ids are compared without str().
FilterSelfNoStr(data, item_id) ==
    SelectSeq(data, LAMBDA r : r.id # JStr(item_id))

\* results = [r for r in response.data if str(r['id']) != item_id]
FilterSelf(data, item_id) ==
    SelectSeq(data, LAMBDA r : Str(r.id) # item_id)

\* results[:limit], as Python slices: a negative limit counts from the end.
Slice(results, limit) ==
    IF limit >= 0
    THEN SubSeq(results, 1, IF limit < Len(results) THEN limit ELSE Len(results))
    ELSE SubSeq(results, 1,
                IF Len(results) + limit > 0 THEN Len(results) + limit ELSE 0)

\* The handler up to the first store call.
GCR_Begin(item_id, type, limit) ==
    [pc |-> "select", item_id |-> item_id, type |-> type, limit |-> limit,
     rpc_function |-> IF type = "movie" THEN "match_movies" ELSE "match_books",
     embedding |-> JNull, data |-> <<>>, status |-> 0, detail |-> "",
     recommendations |-> <<>>, handler |-> "content", raised |-> 0]

\* except Exception as e: raise HTTPException(status_code=500, detail=str(e))
GCR_OnException(st, detail) ==
    [st EXCEPT !.pc = "responded", !.status = 500, !.detail = detail]

\* item = supabase.table(table).select("embedding")...single().execute();
\* if not item.data: raise HTTPException(status_code=404, ...), which the
\* handler's own `except Exception` catches.
GCR_OnItem(st, answer) ==
    IF answer.kind = "exc" THEN GCR_OnException(st, "store error")
    ELSE IF ~Truthy(answer.data)
    THEN GCR_OnException([st EXCEPT !.raised = 404],
                         "404: Item not found in database.")
    ELSE [st EXCEPT !.pc = "rpc", !.embedding = answer.data.embedding]

\* response = supabase.rpc(...).execute(), the filter, the slice and the
\* return; r['id'] raises KeyError for a row without an id.
GCR_OnMatches(st, answer) ==
    IF answer.kind = "exc" THEN GCR_OnException(st, "store error")
    ELSE IF \E n \in 1..Len(answer.data) : answer.data[n].id = JMissing
    THEN GCR_OnException(st, "'id'")
    ELSE [st EXCEPT !.pc = "responded", !.status = 200,
                    !.data = answer.data,
                    !.recommendations =
                        Slice(FilterSelf(answer.data, st.item_id), st.limit)]

----------------------------------------------------------------------------
(* api/main.py, its own get_embedding and semantic_search, over the same    *)
(* record: pc is "embed" before the call of get_embedding, "rpc" before the *)
(* nearest-neighbour call and "responded" after the response; item_id holds *)
(* q, embedding holds query_vector and data holds response.data.            *)

\* for i in range(3)
ApiAttempts == 3

\* get_embedding of api/main.py against a backend that answers the k-th
\* request with script[k]: a 200 returns response.json() as it is (a body
\* that does not parse raises inside the try), a 503 and a request error go
\* to the next attempt, any other status breaks; None after the loop.
RECURSIVE AGE_Run(_, _)
AGE_Run(i, script) ==
    IF i >= ApiAttempts THEN None
    ELSE IF script[i + 1].kind = "exc" THEN AGE_Run(i + 1, script)
    ELSE IF script[i + 1].status = 200
    THEN IF script[i + 1].body = JInvalid
         THEN AGE_Run(i + 1, script)
         ELSE script[i + 1].body
    ELSE IF script[i + 1].status = 503 THEN AGE_Run(i + 1, script)
    ELSE None

api_get_embedding(script) == AGE_Run(0, script)

\* except Exception as e: raise HTTPException(status_code=500,
\*     detail="Search engine encountered an internal error.")
SS_OnException(st) ==
    [st EXCEPT !.pc = "responded", !.status = 500,
               !.detail = "Search engine encountered an internal error."]

\* The handler up to the call of get_embedding: without a store client it
\* raises its 500 before the try block.
SS_Begin(has_client, q, type, limit) ==
    [pc |-> IF has_client THEN "embed" ELSE "responded",
     item_id |-> q, type |-> type, limit |-> limit,
     rpc_function |-> "", embedding |-> JNull, data |-> <<>>,
     status |-> IF has_client THEN 0 ELSE 500,
     detail |-> IF has_client THEN ""
                ELSE "Backend configuration error: Supabase not connected.",
     recommendations |-> <<>>, handler |-> "search",
     raised |-> IF has_client THEN 0 ELSE 500]

\* query_vector = get_embedding(q); if not query_vector: raise
\* HTTPException(status_code=503, ...), inside the try block whose
\* `except Exception` catches it; then the choice of the RPC function.
SS_OnEmbedding(st, query_vector) ==
    IF ~Truthy(query_vector)
    THEN SS_OnException([st EXCEPT !.raised = 503])
    ELSE [st EXCEPT !.pc = "rpc", !.embedding = query_vector,
                    !.rpc_function = IF st.type = "movie"
                                     THEN "match_movies" ELSE "match_books"]

\* response = supabase.rpc(...).execute() and the return.
SS_OnResults(st, answer) ==
    IF answer.kind = "exc" THEN SS_OnException(st)
    ELSE [st EXCEPT !.pc = "responded", !.status = 200,
                    !.data = answer.data]

----------------------------------------------------------------------------
(* SpecRecommend: one request to GET /recommendations/content/{item_id} or *)
(* to GET /search/semantic.                                                *)

\* The store answers the nearest-neighbour call with at most MaxRows rows.
MaxRows == 3

ItemIds == {"1", "2"}
Types == {"movie", "book"}
Limits == {-1, 0, 1, 2}
RowIds == {JNum(1), JNum(2), JStr("1"), JStr("3"), JMissing}

StoreError == [kind |-> "exc", data |-> JNull]
StoreData(data) == [kind |-> "data", data |-> data]

\* The store's answers to the lookup of the source item.
ItemAnswers ==
    { StoreError, StoreData(JNull),
      StoreData([t |-> "obj", size |-> 1, embedding |-> Flat(D)]) }

\* The store's answers to the nearest-neighbour call, whatever match_count.
MatchAnswers ==
    { StoreError }
    \cup { StoreData([n \in 1..Len(ids) |-> [id |-> ids[n]]]) :
              ids \in UNION { [1..k -> RowIds] : k \in 0..MaxRows } }

InitRecommend ==
    /\ TMDB_API_KEY = TRUE
    /\ SUPABASE_URL \in BOOLEAN
    /\ SUPABASE_KEY = TRUE
    /\ HF_TOKEN = TRUE
    /\ ge = [pc |-> "call", i |-> 0, ret |-> None, slept |-> <<>>]
    /\ hf_log = <<>>
    /\ CrawlIdle
    /\ SyncIdle
    /\ ApiIdle

\* The search texts, of min_length 3.
Queries == {"war", "love story"}

\* The embedding backend's answers to the read path.
SearchResponses ==
    { NetworkError, Http(503, JNull), Http(500, JNull), Http(200, Flat(D)),
      Http(200, Flat(0)), Http(200, JNull), Http(200, JInvalid) }

\* The request arrives and the handler is entered.
RecommendCall ==
    /\ api.pc = "idle"
    /\ \E item_id \in ItemIds, type \in Types, limit \in Limits :
          api' = GCR_Begin(item_id, type, limit)
    /\ UNCHANGED <<creds, embedVars, crawlVars, syncVars>>

\* 1. Fetch the source item's pre-calculated embedding.
RecommendSelect ==
    /\ api.pc = "select"
    /\ IF ~api_supabase
       THEN api' = GCR_OnException(api, "'NoneType' object has no attribute 'table'")
       ELSE \E answer \in ItemAnswers : api' = GCR_OnItem(api, answer)
    /\ UNCHANGED <<creds, embedVars, crawlVars, syncVars>>

\* 2. Find nearest neighbors, filter out the item itself, return.
RecommendMatch ==
    /\ api.handler = "content" /\ api.pc = "rpc"
    /\ \E answer \in MatchAnswers : api' = GCR_OnMatches(api, answer)
    /\ UNCHANGED <<creds, embedVars, crawlVars, syncVars>>

\* GET /search/semantic arrives and semantic_search is entered.
SearchCall ==
    /\ api.pc = "idle"
    /\ \E q \in Queries, type \in Types, limit \in Limits :
          api' = SS_Begin(api_supabase, q, type, limit)
    /\ UNCHANGED <<creds, embedVars, crawlVars, syncVars>>

\* Step 1: Get semantic vector from Hugging Face.
SearchEmbed ==
    /\ api.pc = "embed"
    /\ \E script \in [1..ApiAttempts -> SearchResponses] :
          api' = SS_OnEmbedding(api, api_get_embedding(script))
    /\ UNCHANGED <<creds, embedVars, crawlVars, syncVars>>

\* Step 3: Query Supabase pgvector, return.
SearchMatch ==
    /\ api.handler = "search" /\ api.pc = "rpc"
    /\ \E answer \in MatchAnswers : api' = SS_OnResults(api, answer)
    /\ UNCHANGED <<creds, embedVars, crawlVars, syncVars>>

NextRecommend ==
    \/ RecommendCall \/ RecommendSelect \/ RecommendMatch
    \/ SearchCall \/ SearchEmbed \/ SearchMatch

SpecRecommend == InitRecommend /\ [][NextRecommend]_vars

\* The response is a 200 with its recommendations.
Recommended ==
    api.handler = "content" /\ api.pc = "responded" /\ api.status = 200

ExcludesSelf ==
    \A n \in 1..Len(api.recommendations) :
        Str(api.recommendations[n].id) # api.item_id

\* C19 as stated: whatever the store answers, no recommendation of a 200
\* response has an id equal, as a string, to item_id, and the response holds
\* at most `limit` recommendations.
RecommendationsExcludeSelfAtMostLimit ==
    Recommended =>
        /\ ExcludesSelf
        /\ Len(api.recommendations) <= api.limit

\* C19: whatever the store answers, no recommendation of a 200 response has
\* an id equal, as a string, to item_id, and for a limit of 0 or more the
\* response holds at most `limit` recommendations.
RecommendationsExcludeSelf ==
    Recommended =>
        /\ ExcludesSelf
        /\ api.limit >= 0 => Len(api.recommendations) <= api.limit
RecommendationsWitness ==
    /\ Recommended
    /\ api.item_id = "1" /\ api.limit = 1
    /\ api.data = <<[id |-> JNum(1)], [id |-> JNum(2)], [id |-> JStr("3")]>>
    /\ api.recommendations = <<[id |-> JNum(2)]>>

\* C24: an HTTPException that a read-path handler raises itself reaches the
\* client with the status it was raised with: 503 from /search/semantic
\* when get_embedding returns no vector, 404 from
\* /recommendations/content/{item_id} when the item is not in the store.
RaisedStatusReachesClient ==
    (api.pc = "responded" /\ api.raised # 0) => api.status = api.raised

====
